---- MODULE Spec2Model ----
(***************************************************************************)
(* DrizzleAdapter (src/src/adapter.ts): the casbin policy adapter over a   *)
(* drizzle table casbin_rule(id, ptype, v0..v5).                           *)
(*                                                                         *)
(* The table is the sequence of its rows in insertion order (the order a   *)
(* select without ORDER BY returns them in the reference sqlite setup);    *)
(* the surrogate id is left out.  Every public method is taken await by    *)
(* await: the function runs to its await, the awaited statement takes      *)
(* effect on the table, the function runs on.  `inflight` is the call      *)
(* under way: what it was called with, the table it found, the statements  *)
(* it has issued and what it has handed to the casbin model.  Spec has the *)
(* single caller of spec section 5; SpecAwait adds a second caller, with   *)
(* its call `second`, that comes in while a call is under way.             *)
(***************************************************************************)
EXTENDS Integers, Sequences, FiniteSets, Bags, TLC

VARIABLES table, filtered, inflight, second

vars == <<table, filtered, inflight, second>>

-----------------------------------------------------------------------------
(* Bounds of the model *)

MaxRows == 2          \* rows the table may hold
MaxBatch == 2         \* rules in one addPolicies/removePolicies list or one model
MaxFieldValues == 2   \* fieldValues passed to removeFilteredPolicy

-----------------------------------------------------------------------------
(* Values *)

\* SQL NULL / JS null in a column, and JS undefined in a FilterOptions field.
\* Both are kept apart from every string the callers pass.
Null == "<null>"
Undefined == "<undefined>"

\* Strings the callers pass as filter fields and as fieldValues: the empty
\* string and two words.
Values == {"", "a", "b"}

\* Policy types of the model (rbac_model.conf: p and g).
PTypes == {"p", "g"}

\* The six value columns of casbin_rule, in positional order.
Cols == <<"v0", "v1", "v2", "v3", "v4", "v5">>

\* JS truthiness of a string-or-null value: null, undefined and "" are falsy.
Truthy(n) == n # Null /\ n # Undefined /\ n # ""

RECURSIVE SeqsUpTo(_, _)
\* All sequences over S of length 0..n.
SeqsUpTo(S, n) ==
    IF n = 0 THEN {<<>>}
    ELSE LET shorter == SeqsUpTo(S, n - 1)
         IN  shorter \cup {Append(s, x) : s \in {t \in shorter : Len(t) = n - 1}, x \in S}

\* Rule tuples the callers pass, per policy type: a one-field rule, rules
\* that extend it, a rule with an empty-string field, a rule that agrees
\* with another in its second field only, a rule that fills all six
\* columns; role links for g.
Rules(ptype) ==
    IF ptype = "p"
    THEN {<<"a">>, <<"a", "b">>, <<"a", "">>, <<"b", "b">>,
          <<"a", "b", "c", "d", "e", "f">>}
    ELSE {<<"a", "b">>, <<"b", "b">>}

-----------------------------------------------------------------------------
(* Row mapping *)

\* Faulty variant of savePolicyLine: a column the rule has no field for is
\* stored as the empty string. C13 fails on it.
savePolicyLineEmptyAbsent(ptype, rule) ==
    [ptype |-> ptype,
     v0 |-> IF Len(rule) > 0 THEN rule[1] ELSE "",
     v1 |-> IF Len(rule) > 1 THEN rule[2] ELSE "",
     v2 |-> IF Len(rule) > 2 THEN rule[3] ELSE "",
     v3 |-> IF Len(rule) > 3 THEN rule[4] ELSE "",
     v4 |-> IF Len(rule) > 4 THEN rule[5] ELSE "",
     v5 |-> IF Len(rule) > 5 THEN rule[6] ELSE ""]

\* savePolicyLine: positional assignment rule[i] -> v<i>, absent -> null;
\* fields beyond the sixth are not stored.
savePolicyLine(ptype, rule) ==
    [ptype |-> ptype,
     v0 |-> IF Len(rule) > 0 THEN rule[1] ELSE Null,
     v1 |-> IF Len(rule) > 1 THEN rule[2] ELSE Null,
     v2 |-> IF Len(rule) > 2 THEN rule[3] ELSE Null,
     v3 |-> IF Len(rule) > 3 THEN rule[4] ELSE Null,
     v4 |-> IF Len(rule) > 4 THEN rule[5] ELSE Null,
     v5 |-> IF Len(rule) > 5 THEN rule[6] ELSE Null]

RECURSIVE Join(_, _)
\* Array.prototype.join on a list of chunk sequences.
Join(parts, sep) ==
    IF parts = <<>> THEN <<>>
    ELSE IF Len(parts) = 1 THEN parts[1]
    ELSE parts[1] \o <<sep>> \o Join(Tail(parts), sep)

\* The text loadPolicyLine builds, as the sequence of the chunks it
\* concatenates: ptype, ', ', then the truthy columns, each wrapped in
\* double quotes, joined by ', '.
PolicyLineText(line) ==
    LET kept   == SelectSeq(<<line.v0, line.v1, line.v2, line.v3, line.v4, line.v5>>, Truthy)
        quoted == [i \in 1..Len(kept) |-> <<"\"", kept[i], "\"">>]
    IN  <<line.ptype, ", ">> \o Join(quoted, ", ")

RECURSIVE SplitFields(_, _)
\* The delimiter split of the line parser: cur is the field being read.
SplitFields(chunks, cur) ==
    IF chunks = <<>> THEN <<cur>>
    ELSE IF Head(chunks) = ", " THEN <<cur>> \o SplitFields(Tail(chunks), <<>>)
    ELSE SplitFields(Tail(chunks), Append(cur, Head(chunks)))

\* One parsed field: a quoted field loses its quotes, a bare field is
\* taken as is, and nothing between delimiters is the empty string.
Unquote(field) ==
    IF field = <<>> THEN ""
    ELSE IF Len(field) = 3 /\ field[1] = "\"" /\ field[3] = "\"" THEN field[2]
    ELSE field[1]

\* Helper.loadPolicyLine: the first token is the ptype, the rest is the rule
\* pushed onto the model's policy list of that ptype.
HelperLoadPolicyLine(text) ==
    LET fields == SplitFields(text, <<>>)
        tokens == [i \in 1..Len(fields) |-> Unquote(fields[i])]
    IN  [ptype |-> tokens[1], rule |-> Tail(tokens)]

\* loadPolicyLine: what one row adds to the model.
loadPolicyLine(line) == HelperLoadPolicyLine(PolicyLineText(line))

-----------------------------------------------------------------------------
(* The query interface: conditions are eq(column, value) pairs joined by   *)
(* and(); a NULL column equals nothing.                                    *)

eq(col, val) == [col |-> col, val |-> val]

Matches(row, conditions) ==
    \A i \in 1..Len(conditions) :
        /\ row[conditions[i].col] # Null
        /\ row[conditions[i].col] = conditions[i].val

\* The statements the adapter issues.
SelectCall(conditions) == [kind |-> "select", where |-> conditions]
DeleteCall(conditions) == [kind |-> "delete", where |-> conditions]
InsertCall(lines)      == [kind |-> "insert", values |-> lines]
UpdateCall(set, conditions) == [kind |-> "update", set |-> set, where |-> conditions]

\* Rows a select returns.
DbSelect(t, call) == SelectSeq(t, LAMBDA r : Matches(r, call.where))

\* The table after one insert, delete or update statement.
DbExec(t, call) ==
    CASE call.kind = "insert" -> t \o call.values
      [] call.kind = "delete" -> SelectSeq(t, LAMBDA r : ~Matches(r, call.where))
      [] call.kind = "update" ->
            [i \in 1..Len(t) |-> IF Matches(t[i], call.where) THEN call.set ELSE t[i]]
      [] OTHER -> t

RECURSIVE DbExecAll(_, _)
\* The table after a sequence of awaited statements.
DbExecAll(t, calls) ==
    IF calls = <<>> THEN t ELSE DbExecAll(DbExec(t, Head(calls)), Tail(calls))

-----------------------------------------------------------------------------
(* Inputs *)

\* The section casbin passes along with a ptype; the adapter never reads it.
SecOf(ptype) == IF ptype = "g" THEN "g" ELSE "p"

\* Lists of rule tuples (addPolicies, removePolicies, a model's policy).
RuleLists(ptype) == SeqsUpTo(Rules(ptype), MaxBatch)

\* FilterOptions objects: every field is a string or undefined. The callers
\* define any of ptype, v0, v1 and v5.
Filters ==
    [ptype : PTypes \cup {Undefined},
     v0 : Values \cup {Undefined},
     v1 : Values \cup {Undefined},
     v2 : {Undefined}, v3 : {Undefined}, v4 : {Undefined},
     v5 : {"f", Undefined}]

\* fieldIndex arguments: the position before the columns, the first two
\* columns and the last column (with the values after it past the columns).
FieldIndexes == {-1, 0, 1, Len(Cols) - 1}

FieldValueLists == SeqsUpTo(Values, MaxFieldValues)

\* ptype arguments of removeFilteredPolicy: a policy type or the empty string.
FilterPTypes == PTypes \cup {""}

\* A casbin Model as savePolicy reads it: model.model.get('p') and
\* model.model.get('g'), each the list of its (ptype, ast.policy) entries in
\* Map iteration order; a section the model does not have is the empty list.
Models ==
    { [p |-> <<[ptype |-> "p", policy |-> pg[1]]>>,
       g |-> IF pg[2] = <<>> THEN <<>> ELSE <<[ptype |-> "g", policy |-> pg[2]]>>] :
        pg \in {x \in RuleLists("p") \X RuleLists("g") : Len(x[1]) + Len(x[2]) <= MaxBatch} }

-----------------------------------------------------------------------------
(* Statement construction, one operator per public method *)

\* The rows read from a select are fed to the model line by line.
LoadLines(lines) == [i \in 1..Len(lines) |-> loadPolicyLine(lines[i])]

\* Faulty variant of FilterCondition: tests the field for truthiness, so an
\* empty-string field adds no condition. C10 fails on it.
FilterConditionTruthy(filter, f) ==
    IF Truthy(filter[f]) THEN <<eq(f, filter[f])>> ELSE <<>>

\* loadFilteredPolicy: one condition per defined filter field.
FilterCondition(filter, f) ==
    IF filter[f] # Undefined THEN <<eq(f, filter[f])>> ELSE <<>>

loadFilteredPolicyConditions(filter) ==
    FilterCondition(filter, "ptype") \o FilterCondition(filter, "v0")
        \o FilterCondition(filter, "v1") \o FilterCondition(filter, "v2")
        \o FilterCondition(filter, "v3") \o FilterCondition(filter, "v4")
        \o FilterCondition(filter, "v5")

RECURSIVE SectionLines(_)
\* The inner loops of savePolicy over one section of the model.
SectionLines(astMap) ==
    IF astMap = <<>> THEN <<>>
    ELSE LET ptype  == Head(astMap).ptype
             policy == Head(astMap).policy
         IN  [i \in 1..Len(policy) |-> savePolicyLine(ptype, policy[i])]
                 \o SectionLines(Tail(astMap))

\* savePolicy: lines of the 'p' section, then of the 'g' section.
savePolicyLines(model) == SectionLines(model.p) \o SectionLines(model.g)

\* Faulty variant of savePolicyDelete: only the 'p' rows are deleted. C3
\* fails on it.
savePolicyDeleteOnlyP == DeleteCall(<<eq("ptype", "p")>>)

\* savePolicy, line 167: the delete without a predicate.
savePolicyDelete == DeleteCall(<<>>)

\* Faulty variant of savePolicyInsert: the table is cleared once more right
\* before the insert. C11 fails on it.
savePolicyInsertAfterClear(model) ==
    LET lines == savePolicyLines(model)
    IN  IF Len(lines) > 0 THEN <<DeleteCall(<<>>), InsertCall(lines)>> ELSE <<>>

\* savePolicy, lines 169-193: one insert of the Model's lines, unless there
\* is no line.
savePolicyInsert(model) ==
    LET lines == savePolicyLines(model)
    IN  IF Len(lines) > 0 THEN <<InsertCall(lines)>> ELSE <<>>

\* The statements of a savePolicy that runs to its return with the Model
\* as given.
savePolicyCalls(model) == <<savePolicyDelete>> \o savePolicyInsert(model)

addPolicyCalls(sec, ptype, rule) == <<InsertCall(<<savePolicyLine(ptype, rule)>>)>>

\* Faulty variant of addPoliciesCalls: one insert per rule. C9 fails on it.
addPoliciesCallsPerRule(sec, ptype, rules) ==
    [i \in 1..Len(rules) |-> InsertCall(<<savePolicyLine(ptype, rules[i])>>)]

addPoliciesCalls(sec, ptype, rules) ==
    LET lines == [i \in 1..Len(rules) |-> savePolicyLine(ptype, rules[i])]
    IN  IF Len(lines) > 0 THEN <<InsertCall(lines)>> ELSE <<>>

\* The predicate updatePolicy and removePolicy build from a rule: ptype,
\* then every column the rule's line sets.
LineCondition(line, col) ==
    IF line[col] # Null THEN <<eq(col, line[col])>> ELSE <<>>

RuleConditions(ptype, rule) ==
    LET line == savePolicyLine(ptype, rule)
    IN  <<eq("ptype", ptype)>>
            \o LineCondition(line, "v0") \o LineCondition(line, "v1")
            \o LineCondition(line, "v2") \o LineCondition(line, "v3")
            \o LineCondition(line, "v4") \o LineCondition(line, "v5")

\* Faulty variant of updatePolicyCalls: the predicate is built from the new
\* rule. C5 fails on it.
updatePolicyCallsMatchNew(sec, ptype, oldRule, newRule) ==
    <<UpdateCall(savePolicyLine(ptype, newRule), RuleConditions(ptype, newRule))>>

updatePolicyCalls(sec, ptype, oldRule, newRule) ==
    <<UpdateCall(savePolicyLine(ptype, newRule), RuleConditions(ptype, oldRule))>>

\* Faulty variant of removePolicyCalls: the ptype condition is missing. C6
\* fails on it.
removePolicyCallsAnyPtype(sec, ptype, rule) ==
    <<DeleteCall(Tail(RuleConditions(ptype, rule)))>>

removePolicyCalls(sec, ptype, rule) == <<DeleteCall(RuleConditions(ptype, rule))>>

\* Faulty variant of removePoliciesTurn: the array is walked from its end.
\* C12 fails on it.
removePoliciesTurnReversed(sec, ptype, rules, i) ==
    IF i <= Len(rules)
    THEN removePolicyCalls(sec, ptype, rules[Len(rules) + 1 - i])
    ELSE <<>>

\* removePolicies, the i-th turn of its loop over the array `rules`: the
\* removePolicy of the i-th rule, or nothing when the array has no i-th rule.
removePoliciesTurn(sec, ptype, rules, i) ==
    IF i <= Len(rules) THEN removePolicyCalls(sec, ptype, rules[i]) ELSE <<>>

\* Faulty variant of FieldCondition: the value is not tested, so an empty
\* string constrains its column. C14 fails on it.
FieldConditionAnyValue(fieldIdx, value) ==
    CASE fieldIdx = 0 -> <<eq("v0", value)>>
      [] fieldIdx = 1 -> <<eq("v1", value)>>
      [] fieldIdx = 2 -> <<eq("v2", value)>>
      [] fieldIdx = 3 -> <<eq("v3", value)>>
      [] fieldIdx = 4 -> <<eq("v4", value)>>
      [] fieldIdx = 5 -> <<eq("v5", value)>>
      [] OTHER -> <<>>

\* The switch of removeFilteredPolicy: the column of a field position, for
\* positions 0..5 only.
FieldCondition(fieldIdx, value) ==
    IF Truthy(value) THEN
        CASE fieldIdx = 0 -> <<eq("v0", value)>>
          [] fieldIdx = 1 -> <<eq("v1", value)>>
          [] fieldIdx = 2 -> <<eq("v2", value)>>
          [] fieldIdx = 3 -> <<eq("v3", value)>>
          [] fieldIdx = 4 -> <<eq("v4", value)>>
          [] fieldIdx = 5 -> <<eq("v5", value)>>
          [] OTHER -> <<>>
    ELSE <<>>

RECURSIVE FieldConditionsNoOffset(_, _, _)
\* Faulty variant of FieldConditions: the position is i, not fieldIndex + i.
\* C7 fails on it.
FieldConditionsNoOffset(fieldIndex, fieldValues, i) ==
    IF i >= Len(fieldValues) THEN <<>>
    ELSE FieldCondition(i, fieldValues[i + 1])
             \o FieldConditionsNoOffset(fieldIndex, fieldValues, i + 1)

RECURSIVE FieldConditions(_, _, _)
\* The loop of removeFilteredPolicy from i (0-based) on.
FieldConditions(fieldIndex, fieldValues, i) ==
    IF i >= Len(fieldValues) THEN <<>>
    ELSE FieldCondition(fieldIndex + i, fieldValues[i + 1])
             \o FieldConditions(fieldIndex, fieldValues, i + 1)

removeFilteredPolicyConditions(ptype, fieldIndex, fieldValues) ==
    (IF Truthy(ptype) THEN <<eq("ptype", ptype)>> ELSE <<>>)
        \o FieldConditions(fieldIndex, fieldValues, 0)

\* Faulty variant of removeFilteredPolicyCalls: the delete is issued even
\* without a condition. C8 fails on it.
removeFilteredPolicyCallsUnguarded(sec, ptype, fieldIndex, fieldValues) ==
    <<DeleteCall(removeFilteredPolicyConditions(ptype, fieldIndex, fieldValues))>>

\* removeFilteredPolicy: a delete only when there is a condition.
removeFilteredPolicyCalls(sec, ptype, fieldIndex, fieldValues) ==
    LET conditions == removeFilteredPolicyConditions(ptype, fieldIndex, fieldValues)
    IN  IF Len(conditions) > 0 THEN <<DeleteCall(conditions)>> ELSE <<>>

-----------------------------------------------------------------------------
(* Calls.  Every public method is an async function: it runs synchronously  *)
(* to its first await, where it has issued a statement; the statement takes *)
(* effect in the database while the function is still suspended; when the   *)
(* promise of the statement is fulfilled the function runs on, to its next  *)
(* await or to its return.  A call is a record: the statements of it that   *)
(* have taken effect (calls), the statement issued and not yet in effect    *)
(* (todo), and its status: "pending" while the statement in todo is         *)
(* awaited, "answered" when that statement has taken effect and the         *)
(* function has not yet run on, "resolved" when the function has returned   *)
(* and "rejected" when an awaited statement has failed and thrown out of    *)
(* it.  There is no transaction and no lock: whatever state a call is in,   *)
(* the table and the adapter are open to other callers.  A call also keeps  *)
(* what it was called with, the table it found (before) and a note on the   *)
(* second caller (interleaved, below).                                      *)

\* No call.
NoCall == [op |-> "none", status |-> "none"]

\* The Model of a savePolicy before the function has read it.
NoModel == [p |-> <<>>, g |-> <<>>]

\* The status of a function that has run to the point where the statements
\* `todo` are ahead of it: it awaits the first of them, or has returned.
Awaiting(todo) == IF todo = <<>> THEN "resolved" ELSE "pending"

\* The awaited statement of a call has taken effect on table t; a select
\* has read its rows.
Answered(call, t) ==
    LET statement == Head(call.todo)
        ran       == [call EXCEPT !.calls = Append(@, statement), !.todo = Tail(@),
                                  !.status = "answered"]
    IN  IF statement.kind = "select"
        THEN [ran EXCEPT !.rows = DbSelect(t, statement)]
        ELSE ran

\* A function runs on after an await with the statements `todo` ahead of it:
\* it awaits the first of them, or returns.
Ran(call, todo) ==
    [call EXCEPT !.todo = todo, !.status = Awaiting(todo)]

isFiltered == filtered

\* loadPolicy, line 98: the select of every row is awaited.
loadPolicy ==
    [op |-> "loadPolicy", before |-> table, calls |-> <<>>,
     todo |-> <<SelectCall(<<>>)>>, status |-> "pending", interleaved |-> <<>>,
     rows |-> <<>>, loaded |-> <<>>]

\* loadPolicy, lines 100-102: the lines read are handed to the Model.
loadPolicyAfterSelect(call) ==
    [Ran(call, call.todo) EXCEPT !.loaded = LoadLines(call.rows)]

\* loadFilteredPolicy, lines 108-141: the conditions are built and the select
\* is awaited.
loadFilteredPolicy(filter) ==
    [op |-> "loadFilteredPolicy", filter |-> filter, before |-> table, calls |-> <<>>,
     todo |-> <<SelectCall(loadFilteredPolicyConditions(filter))>>,
     status |-> "pending", interleaved |-> <<>>, rows |-> <<>>, loaded |-> <<>>]

\* loadFilteredPolicy, lines 143-145: the lines read are handed to the Model.
loadFilteredPolicyAfterSelect(call) ==
    [Ran(call, call.todo) EXCEPT !.loaded = LoadLines(call.rows)]

\* Faulty variant of loadFilteredPolicyFlag: the flag is set only when the
\* filter constrained the read. C4 fails on it.
loadFilteredPolicyFlagIfConstrained(call) ==
    filtered \/ call.calls[1].where # <<>>

\* loadFilteredPolicy, line 146: this.filtered = true.
loadFilteredPolicyFlag(call) == TRUE

\* savePolicy, line 167: the delete is awaited. The Model is not read before
\* the delete has been answered.
savePolicy ==
    [op |-> "savePolicy", model |-> NoModel, before |-> table, calls |-> <<>>,
     todo |-> <<savePolicyDelete>>, status |-> "pending", interleaved |-> <<>>]

\* savePolicy, lines 169-195, after the delete: the function reads the Model
\* as it is now, builds the lines and awaits the insert, or returns true when
\* there is no line.
savePolicyAfterDelete(call, model) ==
    [Ran(call, savePolicyInsert(model)) EXCEPT !.model = model]

\* savePolicy, line 195, after the insert: return true.
savePolicyAfterInsert(call) == Ran(call, call.todo)

addPolicy(sec, ptype, rule) ==
    LET todo == addPolicyCalls(sec, ptype, rule)
    IN  [op |-> "addPolicy", ptype |-> ptype, rule |-> rule, before |-> table,
         calls |-> <<>>, todo |-> todo, status |-> Awaiting(todo),
         interleaved |-> <<>>]

addPolicies(sec, ptype, rules) ==
    LET todo == addPoliciesCalls(sec, ptype, rules)
    IN  [op |-> "addPolicies", ptype |-> ptype, rules |-> rules, before |-> table,
         calls |-> <<>>, todo |-> todo, status |-> Awaiting(todo),
         interleaved |-> <<>>]

updatePolicy(sec, ptype, oldRule, newRule) ==
    LET todo == updatePolicyCalls(sec, ptype, oldRule, newRule)
    IN  [op |-> "updatePolicy", ptype |-> ptype, oldRule |-> oldRule,
         newRule |-> newRule, before |-> table, calls |-> <<>>, todo |-> todo,
         status |-> Awaiting(todo), interleaved |-> <<>>]

removePolicy(sec, ptype, rule) ==
    LET todo == removePolicyCalls(sec, ptype, rule)
    IN  [op |-> "removePolicy", ptype |-> ptype, rule |-> rule, before |-> table,
         calls |-> <<>>, todo |-> todo, status |-> Awaiting(todo),
         interleaved |-> <<>>]

removeFilteredPolicy(sec, ptype, fieldIndex, fieldValues) ==
    LET todo == removeFilteredPolicyCalls(sec, ptype, fieldIndex, fieldValues)
    IN  [op |-> "removeFilteredPolicy", ptype |-> ptype, fieldIndex |-> fieldIndex,
         fieldValues |-> fieldValues, before |-> table, calls |-> <<>>,
         todo |-> todo, status |-> Awaiting(todo), interleaved |-> <<>>]

\* The rules the loop of removePolicies has taken from the array so far,
\* with the one it takes at its i-th turn from the array as it is then.
Taken(taken, rules, i) ==
    IF i <= Len(rules) THEN Append(taken, rules[i]) ELSE taken

\* removePolicies, lines 318-319: the loop takes the first rule of the array
\* and awaits its removePolicy; with no rule the function returns at once.
removePolicies(sec, ptype, rules) ==
    LET todo == removePoliciesTurn(sec, ptype, rules, 1)
    IN  [op |-> "removePolicies", ptype |-> ptype, rules |-> Taken(<<>>, rules, 1),
         before |-> table, calls |-> <<>>, todo |-> todo, status |-> Awaiting(todo),
         interleaved |-> <<>>]

\* removePolicies, lines 318-320, after the delete of a removePolicy: the
\* loop takes the next rule of the array as it is now and awaits its
\* removePolicy, or returns when the array has no further rule.
removePoliciesAfterDelete(call, rules) ==
    LET i == Len(call.calls) + 1
    IN  [Ran(call, removePoliciesTurn(SecOf(call.ptype), call.ptype, rules, i))
            EXCEPT !.rules = Taken(@, rules, i)]

\* The methods that return when their one awaited statement is fulfilled.
SingleAwait == {"addPolicy", "addPolicies", "updatePolicy", "removePolicy",
                "removeFilteredPolicy"}

\* addPolicy, addPolicies, updatePolicy, removePolicy, removeFilteredPolicy
\* after their await: the function returns.
AfterAwait(call) == Ran(call, call.todo)

-----------------------------------------------------------------------------
(* State after construction *)

Init ==
    /\ table = <<>>
    /\ filtered = FALSE
    /\ inflight = NoCall
    /\ second = NoCall

-----------------------------------------------------------------------------
(* The steps of the first caller's call, `inflight`.                        *)

\* The caller calls a method: the function runs to its first await.
Begin(call) ==
    /\ inflight' = call
    /\ UNCHANGED <<table, filtered, second>>

\* The awaited statement takes effect in the database; the function is
\* still suspended.
TakeEffect ==
    /\ inflight.status = "pending"
    /\ table' = DbExec(table, Head(inflight.todo))
    /\ inflight' = Answered(inflight, table)
    /\ UNCHANGED <<filtered, second>>

\* Faulty variant of Reject: the statements already completed are undone.
\* C15 fails on it.
RejectAndUndo ==
    /\ inflight.status = "pending"
    /\ table' = inflight.before
    /\ inflight' = [inflight EXCEPT !.status = "rejected"]
    /\ UNCHANGED <<filtered, second>>

\* The awaited statement rejects: it has no effect on the table, and the
\* error leaves the function through the await, which has no try/catch.
Reject ==
    /\ inflight.status = "pending"
    /\ inflight' = [inflight EXCEPT !.status = "rejected"]
    /\ UNCHANGED <<table, filtered, second>>

\* loadPolicy runs on after its select.
ResumeLoadPolicy ==
    /\ inflight.op = "loadPolicy"
    /\ inflight.status = "answered"
    /\ inflight' = loadPolicyAfterSelect(inflight)
    /\ UNCHANGED <<table, filtered, second>>

\* loadFilteredPolicy runs on after its select and sets the flag.
ResumeLoadFilteredPolicy ==
    /\ inflight.op = "loadFilteredPolicy"
    /\ inflight.status = "answered"
    /\ inflight' = loadFilteredPolicyAfterSelect(inflight)
    /\ filtered' = loadFilteredPolicyFlag(inflight)
    /\ UNCHANGED <<table, second>>

\* savePolicy runs on after its delete and reads the Model.
ResumeSavePolicy(model) ==
    /\ inflight.op = "savePolicy"
    /\ inflight.status = "answered"
    /\ inflight.todo = <<>>
    /\ Len(inflight.calls) = 1
    /\ inflight' = savePolicyAfterDelete(inflight, model)
    /\ UNCHANGED <<table, filtered, second>>

\* savePolicy runs on after its insert.
ReturnSavePolicy ==
    /\ inflight.op = "savePolicy"
    /\ inflight.status = "answered"
    /\ ~(inflight.todo = <<>> /\ Len(inflight.calls) = 1)
    /\ inflight' = savePolicyAfterInsert(inflight)
    /\ UNCHANGED <<table, filtered, second>>

\* removePolicies runs on after the delete of a removePolicy and takes the
\* next rule of the array.
ResumeRemovePolicies(rules) ==
    /\ inflight.op = "removePolicies"
    /\ inflight.status = "answered"
    /\ inflight' = removePoliciesAfterDelete(inflight, rules)
    /\ UNCHANGED <<table, filtered, second>>

\* A method with a single await runs on after it.
Resume ==
    /\ inflight.op \in SingleAwait
    /\ inflight.status = "answered"
    /\ inflight' = AfterAwait(inflight)
    /\ UNCHANGED <<table, filtered, second>>

\* The callers have taken the results, or the error, of their calls.
Settle ==
    /\ inflight.status \in {"resolved", "rejected"}
    /\ second.status \in {"none", "resolved"}
    /\ inflight' = NoCall
    /\ second' = NoCall
    /\ UNCHANGED <<table, filtered>>

-----------------------------------------------------------------------------
(* One caller (spec section 5): it calls a method, with any arguments,     *)
(* when no call is under way.  The Model of savePolicy and the array of    *)
(* removePolicies are the caller's objects, read by the function when it   *)
(* runs on: they hold what the caller has put into them by then.           *)

\* No call is under way.
Free == inflight = NoCall /\ second = NoCall

CallLoadPolicy == Free /\ Begin(loadPolicy)

CallLoadFilteredPolicy ==
    /\ Free
    /\ \E filter \in Filters : Begin(loadFilteredPolicy(filter))

CallSavePolicy == Free /\ Begin(savePolicy)

\* The Model is read as the function finds it.
ReadModel ==
    /\ inflight.op = "savePolicy"
    /\ \E model \in Models : ResumeSavePolicy(model)

CallAddPolicy ==
    /\ Free
    /\ Len(table) < MaxRows
    /\ \E ptype \in PTypes : \E rule \in Rules(ptype) :
          Begin(addPolicy(SecOf(ptype), ptype, rule))

CallAddPolicies ==
    /\ Free
    /\ \E ptype \in PTypes : \E rules \in RuleLists(ptype) :
          /\ Len(table) + Len(rules) <= MaxRows
          /\ Begin(addPolicies(SecOf(ptype), ptype, rules))

CallUpdatePolicy ==
    /\ Free
    /\ \E ptype \in PTypes : \E oldRule \in Rules(ptype), newRule \in Rules(ptype) :
          Begin(updatePolicy(SecOf(ptype), ptype, oldRule, newRule))

CallRemovePolicy ==
    /\ Free
    /\ \E ptype \in PTypes : \E rule \in Rules(ptype) :
          Begin(removePolicy(SecOf(ptype), ptype, rule))

CallRemovePolicies ==
    /\ Free
    /\ \E ptype \in PTypes : \E rules \in RuleLists(ptype) :
          Begin(removePolicies(SecOf(ptype), ptype, rules))

\* The array of a removePolicies as its loop finds it at its next turn: the
\* rules already taken, with or without a further rule.
ArraysNow(taken, rules) ==
    {taken} \cup {Append(taken, rule) : rule \in {r \in rules : Len(taken) < MaxBatch}}

ReadRules ==
    /\ inflight.op = "removePolicies"
    /\ inflight.status = "answered"
    /\ \E rules \in ArraysNow(inflight.rules, Rules(inflight.ptype)) :
          ResumeRemovePolicies(rules)

CallRemoveFilteredPolicy ==
    /\ Free
    /\ \E ptype \in FilterPTypes, fieldIndex \in FieldIndexes,
          fieldValues \in FieldValueLists :
          Begin(removeFilteredPolicy(SecOf(ptype), ptype, fieldIndex, fieldValues))

Next ==
    \/ CallLoadPolicy
    \/ CallLoadFilteredPolicy
    \/ CallSavePolicy
    \/ CallAddPolicy
    \/ CallAddPolicies
    \/ CallUpdatePolicy
    \/ CallRemovePolicy
    \/ CallRemovePolicies
    \/ CallRemoveFilteredPolicy
    \/ TakeEffect
    \/ ResumeLoadPolicy
    \/ ResumeLoadFilteredPolicy
    \/ ReadModel
    \/ ReturnSavePolicy
    \/ ReadRules
    \/ Resume
    \/ Settle

Spec == Init /\ [][Next]_vars

-----------------------------------------------------------------------------
(* Two callers: while a call of the first is under way (awaited, or        *)
(* answered and not yet run on), a second caller calls loadPolicy or       *)
(* addPolicy; its call is `second`.  Its statement takes effect, and its   *)
(* function runs on, at any later moment, and inflight.interleaved notes   *)
(* how many statements of the first caller's call were in effect when the  *)
(* second caller's statement took effect.  Both calls are taken to their   *)
(* end before the next call.  Awaited statements of the first caller may   *)
(* fail.                                                                   *)

\* Rule tuples the callers of this part pass: a rule and a rule that extends
\* it; one role link.
AwaitRules(ptype) ==
    IF ptype = "p" THEN {<<"a">>, <<"a", "b">>} ELSE {<<"a", "b">>}

AwaitRuleLists(ptype) == SeqsUpTo(AwaitRules(ptype), MaxBatch)

\* The models of Models whose rules are among AwaitRules.
AwaitModels ==
    {model \in Models :
        /\ \A i \in 1..Len(model.p) : model.p[i].policy \in AwaitRuleLists(model.p[i].ptype)
        /\ \A i \in 1..Len(model.g) : model.g[i].policy \in AwaitRuleLists(model.g[i].ptype)}

\* The filters of Filters that define at most ptype 'p' and v0 'a'.
AwaitFilters ==
    {filter \in Filters :
        /\ filter.ptype \in {"p", Undefined}
        /\ filter.v0 \in {"a", Undefined}
        /\ filter.v1 = Undefined
        /\ filter.v5 = Undefined}

CallBeginLoadPolicy == Free /\ Begin(loadPolicy)

CallBeginLoadFilteredPolicy ==
    /\ Free
    /\ \E filter \in AwaitFilters : Begin(loadFilteredPolicy(filter))

CallBeginSavePolicy == Free /\ Begin(savePolicy)

\* The Model is read as the function finds it: what the caller put in, or
\* what anything else that holds the Model has made of it since the call.
ReadAwaitModel ==
    /\ inflight.op = "savePolicy"
    /\ \E model \in AwaitModels : ResumeSavePolicy(model)

CallBeginRemovePolicies ==
    /\ Free
    /\ \E ptype \in PTypes : \E rules \in AwaitRuleLists(ptype) :
          Begin(removePolicies(SecOf(ptype), ptype, rules))

ReadAwaitRules ==
    /\ inflight.op = "removePolicies"
    /\ inflight.status = "answered"
    /\ \E rules \in ArraysNow(inflight.rules, AwaitRules(inflight.ptype)) :
          ResumeRemovePolicies(rules)

\* The first caller's call is under way and no second caller has come yet.
Open ==
    /\ inflight.status \in {"pending", "answered"}
    /\ second = NoCall

\* A second caller calls loadPolicy while the call is under way.
ConcurrentLoadPolicy ==
    /\ Open
    /\ second' = loadPolicy
    /\ UNCHANGED <<table, filtered, inflight>>

\* A second caller calls addPolicy while the call is under way.
ConcurrentAddPolicy ==
    /\ Open
    /\ Len(table) < MaxRows
    /\ \E ptype \in PTypes : \E rule \in AwaitRules(ptype) :
          second' = addPolicy(SecOf(ptype), ptype, rule)
    /\ UNCHANGED <<table, filtered, inflight>>

\* The note the second caller's statement leaves on the first caller's call.
Interleave == [inflight EXCEPT !.interleaved = <<Len(inflight.calls)>>]

\* The second caller's statement takes effect in the database.
ConcurrentTakeEffect ==
    /\ second.status = "pending"
    /\ table' = DbExec(table, Head(second.todo))
    /\ second' = Answered(second, table)
    /\ inflight' = Interleave
    /\ UNCHANGED filtered

\* The second caller's function runs on after its await.
ConcurrentResume ==
    /\ second.status = "answered"
    /\ second' = IF second.op = "loadPolicy" THEN loadPolicyAfterSelect(second)
                                             ELSE AfterAwait(second)
    /\ UNCHANGED <<table, filtered, inflight>>

NextAwait ==
    \/ CallBeginLoadPolicy
    \/ CallBeginLoadFilteredPolicy
    \/ CallBeginSavePolicy
    \/ CallBeginRemovePolicies
    \/ TakeEffect
    \/ Reject
    \/ ResumeLoadPolicy
    \/ ResumeLoadFilteredPolicy
    \/ ReadAwaitModel
    \/ ReturnSavePolicy
    \/ ReadAwaitRules
    \/ Settle
    \/ ConcurrentLoadPolicy
    \/ ConcurrentAddPolicy
    \/ ConcurrentTakeEffect
    \/ ConcurrentResume

SpecAwait == Init /\ [][NextAwait]_vars

-----------------------------------------------------------------------------
(* Vocabulary of the properties *)

\* row is the row of the rule tuple `rule` of policy type ptype: the i-th
\* field in column v<i-1>, every further column null.
Encodes(row, ptype, rule) ==
    /\ row.ptype = ptype
    /\ \A k \in 1..Len(Cols) :
          row[Cols[k]] = (IF k <= Len(rule) THEN rule[k] ELSE Null)

\* row has policy type ptype and carries `rule` in its first columns,
\* whatever its later columns hold.
StartsWith(row, ptype, rule) ==
    /\ row.ptype = ptype
    /\ \A k \in 1..Len(rule) : k <= Len(Cols) => row[Cols[k]] = rule[k]

Range(seq) == {seq[i] : i \in 1..Len(seq)}

\* The multiset of the elements of a sequence.
BagOf(seq) == [x \in Range(seq) |-> Cardinality({i \in 1..Len(seq) : seq[i] = x})]

RECURSIVE SectionRules(_)
\* The (ptype, rule) pairs of one section of a model, in iteration order.
SectionRules(astMap) ==
    IF astMap = <<>> THEN <<>>
    ELSE [i \in 1..Len(Head(astMap).policy) |->
              [ptype |-> Head(astMap).ptype, rule |-> Head(astMap).policy[i]]]
             \o SectionRules(Tail(astMap))

\* Every rule of a model: the 'p' family, then the 'g' family.
ModelRules(model) == SectionRules(model.p) \o SectionRules(model.g)

KindCount(calls, kind) == Cardinality({i \in 1..Len(calls) : calls[i].kind = kind})

\* The call under way is a call of `op` that has returned.
Done(op) == inflight.op = op /\ inflight.status = "resolved"

-----------------------------------------------------------------------------
(* Properties *)

\* C1: round trip. When loadPolicy reads a table that holds exactly the row
\* addPolicy(sec, ptype, rule) writes into an empty table, for a rule of 1 to
\* 6 fields, the model is handed one rule line whose fields are exactly the
\* fields of rule, in order.
C1_RoundTrip ==
    \A ptype \in PTypes : \A rule \in Rules(ptype) :
        ( /\ Len(rule) \in 1..Len(Cols)
          /\ Done("loadPolicy")
          /\ inflight.before = DbExecAll(<<>>, addPolicyCalls(SecOf(ptype), ptype, rule)) )
        => inflight.loaded = <<[ptype |-> ptype, rule |-> rule]>>

\* C2: save then load. When loadPolicy reads the table savePolicy(model)
\* leaves behind, the rules handed to the (empty) second model are, as a set
\* of (ptype, rule) pairs, the rules of model.
C2_SaveThenLoad ==
    \A model \in Models :
        ( /\ Done("loadPolicy")
          /\ inflight.before = DbExecAll(<<>>, savePolicyCalls(model)) )
        => Range(inflight.loaded) = Range(ModelRules(model))

\* C3: savePolicy is a full replace. After savePolicy(model) returns true the
\* table holds exactly one row per rule of the model, the 'p' family followed
\* by the 'g' family in iteration order, whatever it held before; for a model
\* without rules the table is empty and no insert was issued.
C3_SaveReplaces ==
    (inflight.op = "savePolicy" /\ inflight.status = "resolved") =>
        LET rules == ModelRules(inflight.model)
        IN  /\ inflight.todo = <<>>
            /\ Len(table) = Len(rules)
            /\ \A i \in 1..Len(rules) : Encodes(table[i], rules[i].ptype, rules[i].rule)
            /\ KindCount(inflight.calls, "insert") = (IF rules = <<>> THEN 0 ELSE 1)
            /\ rules = <<>> => table = <<>>

\* C3 witness: a save of a model with a 'p' rule and a 'g' rule over a table
\* that held a row the model does not have.
C3_Witness ==
    /\ inflight.op = "savePolicy"
    /\ inflight.status = "resolved"
    /\ inflight.before # <<>>
    /\ \E i \in 1..Len(inflight.before) : inflight.before[i] \notin Range(table)
    /\ Len(table) = 2
    /\ table[1].ptype = "p"
    /\ table[2].ptype = "g"

\* loadFilteredPolicy runs on after its select in this step and returns.
CompletesFilteredLoad ==
    /\ inflight.op = "loadFilteredPolicy"
    /\ inflight.status = "answered"
    /\ inflight'.status = "resolved"

\* C4: the filtered flag is one-way. It is false on a new adapter; the step
\* in which loadFilteredPolicy completes leaves it true, whatever the
\* filter; every other step leaves it as it was, so it never returns to
\* false.
C4_FilteredOneWay ==
    /\ isFiltered = FALSE
    /\ [][IF CompletesFilteredLoad THEN filtered' = TRUE
                                   ELSE filtered' = filtered]_vars

\* C4 witness: a filtered load with every filter field undefined, over an
\* empty table, has set the flag.
C4_Witness ==
    /\ inflight.op = "loadFilteredPolicy"
    /\ inflight.status = "resolved"
    /\ \A f \in DOMAIN inflight.filter : inflight.filter[f] = Undefined
    /\ inflight.rows = <<>>
    /\ isFiltered = TRUE

\* C5, as stated: if the table holds a row equal to (ptype, oldRule), then
\* after updatePolicy (with a new tuple other than the old one) exactly one row equals (ptype, newRule), no row equals
\* the old tuple, and every other row is unchanged.
C5_Original ==
    ( /\ Done("updatePolicy")
      /\ inflight.oldRule # inflight.newRule
      /\ \E i \in 1..Len(inflight.before) : Encodes(inflight.before[i], inflight.ptype, inflight.oldRule) )
    => /\ Len(table) = Len(inflight.before)
       /\ Cardinality({i \in 1..Len(table) : Encodes(table[i], inflight.ptype, inflight.newRule)}) = 1
       /\ \A i \in 1..Len(table) : ~Encodes(table[i], inflight.ptype, inflight.oldRule)
       /\ \A i \in 1..Len(table) :
             ~Encodes(inflight.before[i], inflight.ptype, inflight.oldRule) => table[i] = inflight.before[i]

\* C5, amended: if the table holds a row equal to (ptype, oldRule), then
\* after updatePolicy every row of that ptype that carried oldRule in its
\* first columns (the row equal to it, its duplicates, and longer rows that
\* extend it) equals (ptype, newRule) and every other row is unchanged; when
\* the row equal to the old tuple was the only such row, no row equalled the
\* new tuple and the tuples differ, exactly one row equals the new tuple and
\* none the old.
C5_UpdateMatching ==
    ( /\ Done("updatePolicy")
      /\ \E i \in 1..Len(inflight.before) : Encodes(inflight.before[i], inflight.ptype, inflight.oldRule) )
    => /\ Len(table) = Len(inflight.before)
       /\ \A i \in 1..Len(table) :
             IF StartsWith(inflight.before[i], inflight.ptype, inflight.oldRule)
             THEN Encodes(table[i], inflight.ptype, inflight.newRule)
             ELSE table[i] = inflight.before[i]
       /\ ( /\ Cardinality({i \in 1..Len(inflight.before) :
                    StartsWith(inflight.before[i], inflight.ptype, inflight.oldRule)}) = 1
            /\ \A i \in 1..Len(inflight.before) :
                    ~Encodes(inflight.before[i], inflight.ptype, inflight.newRule)
            /\ inflight.oldRule # inflight.newRule )
           => /\ Cardinality({i \in 1..Len(table) :
                      Encodes(table[i], inflight.ptype, inflight.newRule)}) = 1
              /\ \A i \in 1..Len(table) : ~Encodes(table[i], inflight.ptype, inflight.oldRule)

\* C5 witness: an update of the row equal to the old tuple, next to a row
\* that does not match, with a different new tuple.
C5_Witness ==
    /\ Done("updatePolicy")
    /\ inflight.oldRule # inflight.newRule
    /\ Len(inflight.before) = 2
    /\ Encodes(inflight.before[1], inflight.ptype, inflight.oldRule)
    /\ ~StartsWith(inflight.before[2], inflight.ptype, inflight.oldRule)
    /\ Encodes(table[1], inflight.ptype, inflight.newRule)
    /\ table[2] = inflight.before[2]

\* C6, as stated: after removePolicy(sec, ptype, rule) no row encoding
\* (ptype, rule) remains and every row that encodes a different rule (other
\* ptype, other value, other length) is still there, unchanged.
C6_Original ==
    Done("removePolicy") =>
        table = SelectSeq(inflight.before, LAMBDA row : ~Encodes(row, inflight.ptype, inflight.rule))

\* C6, amended: after removePolicy(sec, ptype, rule) no row of that ptype
\* that carries rule in its first columns remains (the row encoding the
\* rule, and longer rows that extend it), and every other row is still
\* there, unchanged and in order.
C6_RemoveMatching ==
    Done("removePolicy") =>
        table = SelectSeq(inflight.before, LAMBDA row : ~StartsWith(row, inflight.ptype, inflight.rule))

\* C6 witness: a remove that deleted the row encoding the rule and kept
\* another row.
C6_Witness ==
    /\ Done("removePolicy")
    /\ Len(inflight.before) = 2
    /\ Encodes(inflight.before[1], inflight.ptype, inflight.rule)
    /\ table = <<inflight.before[2]>>

\* The predicate of C7: the row has the given ptype and, for every supplied
\* non-empty value at a column position, that value in column v(fieldIndex+i).
FilteredRemoveHits(row, ptype, fieldIndex, fieldValues) ==
    /\ row.ptype = ptype
    /\ \A i \in 0..(Len(fieldValues) - 1) :
          (fieldValues[i + 1] # "" /\ fieldIndex + i \in 0..(Len(Cols) - 1))
              => row[Cols[fieldIndex + i + 1]] = fieldValues[i + 1]

\* C7: filtered remove with positional offset. With a non-empty ptype,
\* removeFilteredPolicy deletes exactly the rows of that ptype whose column
\* v(fieldIndex+i) equals fieldValues[i] for every supplied non-empty value
\* (at a position the table has a column for), whatever the columns before
\* fieldIndex hold; every other row is kept, unchanged.
C7_FilteredRemove ==
    (Done("removeFilteredPolicy") /\ inflight.ptype # "") =>
        table = SelectSeq(inflight.before,
                    LAMBDA row : ~FilteredRemoveHits(row, inflight.ptype,
                                                     inflight.fieldIndex, inflight.fieldValues))

\* C7 witness: fieldIndex 1 and value 'b' on two 'p' rows with v1 = 'b' and
\* different v0 removed both.
C7_Witness ==
    /\ Done("removeFilteredPolicy")
    /\ inflight.ptype = "p"
    /\ inflight.fieldIndex = 1
    /\ inflight.fieldValues = <<"b">>
    /\ Len(inflight.before) = 2
    /\ inflight.before[1].v0 # inflight.before[2].v0
    /\ inflight.before[1].v1 = "b"
    /\ inflight.before[2].v1 = "b"
    /\ table = <<>>

\* The predicate set of a removeFilteredPolicy call is empty: no ptype and
\* no value that is non-empty at a column position.
EmptyPredicate(ptype, fieldIndex, fieldValues) ==
    /\ ptype = ""
    /\ \A i \in 0..(Len(fieldValues) - 1) :
          fieldValues[i + 1] = "" \/ fieldIndex + i \notin 0..(Len(Cols) - 1)

\* C8: empty-predicate safety. A removeFilteredPolicy call whose predicate
\* set is empty issues no statement at all and leaves the table as it was.
C8_EmptyPredicateSafe ==
    ( /\ Done("removeFilteredPolicy")
      /\ EmptyPredicate(inflight.ptype, inflight.fieldIndex, inflight.fieldValues) )
    => (inflight.calls = <<>> /\ table = inflight.before)

\* C8 witness: removeFilteredPolicy('', '', 0) on a table with rows.
C8_Witness ==
    /\ Done("removeFilteredPolicy")
    /\ inflight.ptype = ""
    /\ inflight.fieldIndex = 0
    /\ inflight.fieldValues = <<>>
    /\ Len(table) = MaxRows

RECURSIVE SequentialAdds(_, _, _)
\* The table after addPolicy(sec, ptype, t1) .. addPolicy(sec, ptype, tN).
SequentialAdds(t, ptype, rules) ==
    IF rules = <<>> THEN t
    ELSE SequentialAdds(DbExecAll(t, addPolicyCalls(SecOf(ptype), ptype, Head(rules))),
                        ptype, Tail(rules))

\* C9: batch insert equivalence. addPolicies leaves the same multiset of rows
\* as the sequential addPolicy calls, and issues a single insert (none for
\* an empty list) and nothing else.
C9_BatchInsert ==
    Done("addPolicies") =>
        /\ BagOf(table) = BagOf(SequentialAdds(inflight.before, inflight.ptype, inflight.rules))
        /\ Len(inflight.calls) = (IF inflight.rules = <<>> THEN 0 ELSE 1)
        /\ KindCount(inflight.calls, "insert") = Len(inflight.calls)

\* C9 witness: a batch of two different rules.
C9_Witness ==
    /\ Done("addPolicies")
    /\ Len(inflight.rules) = 2
    /\ inflight.rules[1] # inflight.rules[2]
    /\ Len(table) = Len(inflight.before) + 2

\* Every defined field of the filter equals the row's column.
FilterHits(row, filter) ==
    \A f \in DOMAIN filter : filter[f] # Undefined => row[f] = filter[f]

\* C10: loadFilteredPolicy reads, with a single select, exactly the rows
\* that every defined filter field equals, and hands the model their lines;
\* a filter without a defined field reads what loadPolicy reads; the table
\* is not modified.
C10_FilteredLoad ==
    (inflight.op = "loadFilteredPolicy" /\ inflight.status = "resolved") =>
        /\ inflight.rows = SelectSeq(inflight.before,
                                LAMBDA row : FilterHits(row, inflight.filter))
        /\ inflight.loaded = [i \in 1..Len(inflight.rows) |->
                                  loadPolicyLine(inflight.rows[i])]
        /\ Len(inflight.calls) = 1
        /\ inflight.calls[1].kind = "select"
        /\ inflight.todo = <<>>
        /\ (\A f \in DOMAIN inflight.filter : inflight.filter[f] = Undefined)
               => inflight.rows = DbSelect(inflight.before, SelectCall(<<>>))
        /\ table = inflight.before

\* C10 witness: the filter {ptype: 'p', v0: 'a'} read one of two rows.
C10_Witness ==
    /\ inflight.op = "loadFilteredPolicy"
    /\ inflight.status = "resolved"
    /\ inflight.filter.ptype = "p"
    /\ inflight.filter.v0 = "a"
    /\ inflight.filter.v1 = Undefined
    /\ Len(inflight.before) = 2
    /\ Len(inflight.rows) = 1

\* C11: savePolicy is not atomic. Its delete and its insert are two awaited
\* statements, in that order, with nothing that keeps a second caller out
\* between them: a loadPolicy of a second caller that takes effect after the
\* delete and before the insert reads the cleared table, which holds
\* neither the rows from before the save nor the model's rows; and once the
\* save has returned, a row a second caller's addPolicy added between the
\* two statements is still in the table, next to the model's rows.
C11_NotAtomic ==
    inflight.op = "savePolicy" =>
        LET rules   == ModelRules(inflight.model)
            all     == inflight.calls \o inflight.todo
            between == inflight.interleaved = <<1>>
        IN  /\ all[1].kind = "delete"
            /\ rules # <<>> => (Len(all) = 2 /\ all[2].kind = "insert")
            /\ (between /\ second.op = "loadPolicy") =>
                   /\ second.rows = <<>>
                   /\ inflight.before # <<>> => second.rows # inflight.before
                   /\ rules # <<>> => Len(second.rows) # Len(rules)
            /\ (between /\ second.op = "addPolicy" /\ inflight.status = "resolved") =>
                   /\ Len(table) = 1 + Len(rules)
                   /\ Encodes(table[1], second.ptype, second.rule)
                   /\ \A i \in 1..Len(rules) :
                         Encodes(table[i + 1], rules[i].ptype, rules[i].rule)

\* C11 witness: a save over a table with rows has returned, and the row a
\* second caller added between its delete and its insert, a row the model
\* does not have, is in the table.
C11_Witness ==
    /\ inflight.op = "savePolicy"
    /\ inflight.status = "resolved"
    /\ inflight.before # <<>>
    /\ inflight.interleaved = <<1>>
    /\ Len(inflight.calls) = 2
    /\ second.op = "addPolicy"
    /\ \A i \in 1..Len(ModelRules(inflight.model)) :
          ModelRules(inflight.model)[i].rule # second.rule
    /\ \E i \in 1..Len(table) : Encodes(table[i], second.ptype, second.rule)

RECURSIVE SequentialRemoves(_, _, _)
\* The table after removePolicy(sec, ptype, t1) .. removePolicy(sec, ptype, tN).
SequentialRemoves(t, ptype, rules) ==
    IF rules = <<>> THEN t
    ELSE SequentialRemoves(DbExecAll(t, removePolicyCalls(SecOf(ptype), ptype, Head(rules))),
                           ptype, Tail(rules))

\* C12: removePolicies performs one removePolicy per tuple, in list order
\* (the tuples as its loop takes them from the array, turn by turn), each
\* delete completing before the next starts. With no other writer, at
\* every await the table is the result of the removePolicy calls for the
\* tuples done so far; when all succeed the call returns with the table of
\* the N sequential removePolicy calls; when the delete for tk fails the
\* call ends in that error with the deletions of t1..t(k-1) in effect and
\* the deletes for tk..tN not carried out.
C12_RemovePerTuple ==
    inflight.op = "removePolicies" =>
        LET rules == inflight.rules
            all   == inflight.calls \o inflight.todo
            done  == SubSeq(rules, 1, Len(inflight.calls))
        IN  /\ Len(all) = Len(rules)
            /\ \A i \in 1..Len(rules) :
                  /\ all[i].kind = "delete"
                  /\ all[i].where = RuleConditions(inflight.ptype, rules[i])
            /\ inflight.interleaved = <<>> =>
                  table = SequentialRemoves(inflight.before, inflight.ptype, done)
            /\ inflight.status = "resolved" => done = rules
            /\ inflight.status = "rejected" => Len(done) < Len(rules)

\* C12 witness: of two different tuples that both had a row, the delete for
\* the first took effect and the delete for the second failed; the second
\* tuple's row is still there.
C12_Witness ==
    /\ inflight.op = "removePolicies"
    /\ inflight.status = "rejected"
    /\ inflight.interleaved = <<>>
    /\ Len(inflight.rules) = 2
    /\ inflight.rules[1] # inflight.rules[2]
    /\ Len(inflight.calls) = 1
    /\ \E i \in 1..Len(inflight.before) :
          Encodes(inflight.before[i], inflight.ptype, inflight.rules[1])
    /\ \A i \in 1..Len(table) : ~Encodes(table[i], inflight.ptype, inflight.rules[1])
    /\ \E i \in 1..Len(table) : Encodes(table[i], inflight.ptype, inflight.rules[2])

\* What holds while a savePolicy has ended in the error of a statement
\* (with no other writer in between).
SaveFailed ==
    (inflight.op = "savePolicy" /\ inflight.status = "rejected"
        /\ inflight.interleaved = <<>>) =>
        LET rules == ModelRules(inflight.model)
        IN  /\ inflight.todo # <<>>
            /\ KindCount(inflight.calls, "insert") = 0
            /\ Head(inflight.todo).kind = "insert" =>
                  /\ inflight.calls = <<DeleteCall(<<>>)>>
                  /\ table = <<>>
                  /\ inflight.before # <<>> => table # inflight.before
                  /\ Len(table) # Len(rules)
            /\ Head(inflight.todo).kind = "delete" =>
                  /\ inflight.calls = <<>>
                  /\ KindCount(inflight.todo, "insert") = 0
                  /\ table = inflight.before

\* Once a call has ended in an error, the only thing that happens to it is
\* that its caller takes the error: no statement of it is issued again, the
\* call never turns into a success, and it leaves the table alone (the
\* table changes only when a second caller's statement takes effect).
NoRetry ==
    inflight.status = "rejected" =>
        /\ \/ inflight' = NoCall
           \/ /\ inflight'.status = "rejected"
              /\ inflight'.calls = inflight.calls
              /\ inflight'.todo = inflight.todo
        /\ \/ table' = table
           \/ second.status = "pending" /\ second'.status = "answered"

\* C15: savePolicy does not undo its delete on failure. If the delete
\* succeeds and the insert fails, the call ends in that error (true is not
\* returned, nothing is retried) and the table is left empty, holding
\* neither the rows from before the call nor the model's rows; if the
\* delete itself fails, no insert is attempted and the table is unchanged.
C15_NoUndo == []SaveFailed /\ [][NoRetry]_vars

\* C15 witness: over a table with rows, the delete of a save succeeded and
\* its insert failed; the table is empty.
C15_Witness ==
    /\ inflight.op = "savePolicy"
    /\ inflight.status = "rejected"
    /\ inflight.interleaved = <<>>
    /\ inflight.before # <<>>
    /\ inflight.calls = <<DeleteCall(<<>>)>>
    /\ Len(inflight.todo) = 1
    /\ table = <<>>

\* The number of columns of a row that are set.
SetColumns(row) == Cardinality({k \in 1..Len(Cols) : row[Cols[k]] # Null})

\* The columns of a row that are set are its first ones.
NoGap(row) ==
    \A k \in 1..Len(Cols) : row[Cols[k]] # Null =>
        \A j \in 1..(k - 1) : row[Cols[j]] # Null

\* The row carries a rule of n fields: n columns set, none after them.
Carries(row, n) ==
    /\ NoGap(row)
    /\ SetColumns(row) = (IF n < Len(Cols) THEN n ELSE Len(Cols))

\* C13: no-gap row invariant. After any sequence of addPolicy, addPolicies,
\* savePolicy, updatePolicy, removePolicy, removePolicies and
\* removeFilteredPolicy calls on an empty table, every row has a non-null
\* ptype and its set columns are a prefix of v0..v5; and a row just written
\* for a rule of n fields has exactly its first n columns set, so a slot the
\* rule does not use is null, not the empty string.
C13_NoGapRows ==
    /\ \A i \in 1..Len(table) : table[i].ptype # Null /\ NoGap(table[i])
    /\ Done("addPolicy") => Carries(table[Len(table)], Len(inflight.rule))
    /\ Done("addPolicies") =>
          \A i \in 1..Len(inflight.rules) :
              Carries(table[Len(inflight.before) + i], Len(inflight.rules[i]))
    /\ (inflight.op = "savePolicy" /\ inflight.status = "resolved") =>
          \A i \in 1..Len(ModelRules(inflight.model)) :
              Carries(table[i], Len(ModelRules(inflight.model)[i].rule))
    /\ Done("updatePolicy") =>
          \A i \in 1..Len(table) :
              table[i] # inflight.before[i] => Carries(table[i], Len(inflight.newRule))

\* C13 witness: updatePolicy has replaced a rule that filled all six columns
\* by a rule of fewer fields, next to a row whose rule has an empty-string
\* field.
C13_Witness ==
    /\ Done("updatePolicy")
    /\ Len(inflight.oldRule) = Len(Cols)
    /\ Len(inflight.newRule) < Len(Cols)
    /\ \E i \in 1..Len(table) :
          /\ Encodes(inflight.before[i], inflight.ptype, inflight.oldRule)
          /\ Encodes(table[i], inflight.ptype, inflight.newRule)
    /\ \E i \in 1..Len(table) : \E k \in 1..Len(Cols) : table[i][Cols[k]] = ""

\* The i-th supplied value (1-based) is one removeFilteredPolicy ignores:
\* it is the empty string, or its position fieldIndex + i - 1 has no column.
Ignored(fieldIndex, fieldValues, i) ==
    \/ fieldValues[i] = ""
    \/ fieldIndex + i - 1 \notin 0..(Len(Cols) - 1)

\* The list of supplied values with the i-th one taken out; the values after
\* it move up by one position.
LeftOut(fieldValues, i) ==
    SubSeq(fieldValues, 1, i - 1) \o SubSeq(fieldValues, i + 1, Len(fieldValues))

\* The table the call removeFilteredPolicy(sec, ptype, fieldIndex, ...values)
\* leaves of table t.
AfterFilteredRemove(t, ptype, fieldIndex, fieldValues) ==
    DbExecAll(t, removeFilteredPolicyCalls(SecOf(ptype), ptype, fieldIndex, fieldValues))

\* The row meets every supplied value other than the i-th that is not
\* ignored, each at its own position fieldIndex + j - 1, and the ptype if one
\* is given.
HitsWithout(row, ptype, fieldIndex, fieldValues, i) ==
    /\ ptype # "" => row.ptype = ptype
    /\ \A j \in 1..Len(fieldValues) :
          (j # i /\ ~Ignored(fieldIndex, fieldValues, j))
              => row[Cols[fieldIndex + j]] = fieldValues[j]

\* With a non-empty ptype and only ignored values, every row of that ptype
\* is deleted and no other.
OnlyIgnoredDeletesPtype ==
    ( /\ inflight.ptype # ""
      /\ \A i \in 1..Len(inflight.fieldValues) :
            Ignored(inflight.fieldIndex, inflight.fieldValues, i) )
    => table = SelectSeq(inflight.before, LAMBDA row : row.ptype # inflight.ptype)

\* C14, as stated: a supplied value that is ignored can be left out of the
\* list of values, and the call deletes the same rows; with a non-empty
\* ptype and only ignored values the call deletes every row of that ptype.
C14_Original ==
    Done("removeFilteredPolicy") =>
        /\ \A i \in 1..Len(inflight.fieldValues) :
              Ignored(inflight.fieldIndex, inflight.fieldValues, i) =>
                  table = AfterFilteredRemove(inflight.before, inflight.ptype, inflight.fieldIndex,
                                              LeftOut(inflight.fieldValues, i))
        /\ OnlyIgnoredDeletesPtype

\* C14, amended: a supplied value that is ignored adds no condition to the
\* statement, and the call deletes the rows it would delete if that value
\* constrained nothing while every other value kept its position (nothing
\* at all when no condition is left); leaving the value out of the list is
\* the same call when it is the last value of the list; with a non-empty
\* ptype and only ignored values the call deletes every row of that ptype.
C14_IgnoredValues ==
    Done("removeFilteredPolicy") =>
        LET fieldValues == inflight.fieldValues
            constraining == {j \in 1..Len(fieldValues) :
                                ~Ignored(inflight.fieldIndex, fieldValues, j)}
            conditions == Cardinality(constraining) + (IF inflight.ptype # "" THEN 1 ELSE 0)
        IN  /\ Len(inflight.calls) = (IF conditions > 0 THEN 1 ELSE 0)
            /\ \A c \in 1..Len(inflight.calls) : Len(inflight.calls[c].where) = conditions
            /\ \A i \in 1..Len(fieldValues) :
                  Ignored(inflight.fieldIndex, fieldValues, i) =>
                      table = IF conditions > 0
                              THEN SelectSeq(inflight.before,
                                      LAMBDA row : ~HitsWithout(row, inflight.ptype,
                                                       inflight.fieldIndex, fieldValues, i))
                              ELSE inflight.before
            /\ ( /\ fieldValues # <<>>
                  /\ Ignored(inflight.fieldIndex, fieldValues, Len(fieldValues)) )
               => table = AfterFilteredRemove(inflight.before, inflight.ptype, inflight.fieldIndex,
                                              LeftOut(fieldValues, Len(fieldValues)))
            /\ OnlyIgnoredDeletesPtype

\* C14 witness: removeFilteredPolicy(sec, 'p', 0, '', 'b') has deleted a 'p'
\* row with v1 = 'b' whose v0 is not 'b' and has kept another row.
C14_Witness ==
    /\ Done("removeFilteredPolicy")
    /\ inflight.ptype = "p"
    /\ inflight.fieldIndex = 0
    /\ inflight.fieldValues = <<"", "b">>
    /\ Len(inflight.before) = 2
    /\ Len(table) = 1
    /\ \E i \in 1..Len(inflight.before) :
          /\ inflight.before[i].v0 # "b"
          /\ inflight.before[i].v1 = "b"
          /\ inflight.before[i] \notin Range(table)

====
